---- MODULE Spec2Model ----
(***************************************************************************)
(* Tournament bracket engine of THeGameRoomEnvironment                     *)
(* (src/components/lib/tournaments.ts, members.ts, leagues.ts).            *)
(*                                                                         *)
(* The Firestore collections leagues, leagueMembers and tournamentMatches  *)
(* are functions from document id to document.  A document id that the     *)
(* code builds as a template string is modelled by the tuple of its parts: *)
(*   `${leagueId}_${userId}`               ->  <<leagueId, userId>>        *)
(*   `${leagueId}_r${round}_m${matchNumber}` -> <<leagueId, round, number>>*)
(* User ids are numbers: 1..MaxUsers are real accounts, 100+i is           *)
(* 'dummy_user_i'.  Null (0) stands for null / undefined / signed out.     *)
(*                                                                         *)
(* Spec      : the exported operations called one after the other, each    *)
(*             call running to completion (one action per call), over a    *)
(*             membership that changes.                                    *)
(* SpecGen   : generateBracketMatches and the two readers over every pool  *)
(*             of 0..MaxPlayers active members.                            *)
(* SpecRead  : getTournamentBracket applied to an arbitrary bounded match  *)
(*             collection (the reader as a pure function of the store).    *)
(* SpecOrder : getTournamentBracket applied to collections whose document  *)
(*             ids are not in the order of their match numbers.            *)
(* SpecStand : the two readers applied to every league of up to three      *)
(*             members (active or not) and MaxStandMatches played matches. *)
(* SpecConc  : two generateBracketMatches calls that interleave at their   *)
(*             awaits, over pools of 1..MaxConcPlayers active members.     *)
(* SpecPartial : one generateBracketMatches call await by await, its        *)
(*             setDoc possibly failing, with the two readers called in     *)
(*             between.                                                    *)
(* SpecJoin  : joinTournament calls of several users that interleave at     *)
(*             their awaits, on a league with a participant limit.         *)
(* SpecCloud : the cloud functions createLeague and joinLeagueByCode, the   *)
(*             join await by await, two calls at a time.                   *)
(* SpecShuffle : the seeding sort of generateBracketMatches, one call of   *)
(*             its random comparator at a time.                            *)
(***************************************************************************)
EXTENDS Integers, Sequences, FiniteSets, TLC

VARIABLES
  leagues,            \* collection 'leagues'
  leagueMembers,      \* collection 'leagueMembers'
  tournamentMatches,  \* collection 'tournamentMatches'
  ret,                \* what the last call returned or threw
  generated,          \* history: the number of match documents written by
                      \* the generateBracketMatches call that succeeded (0: none)
  calls               \* the generateBracketMatches calls in flight, by caller:
                      \* where each is in the code and its local variables

vars == <<leagues, leagueMembers, tournamentMatches, ret, generated, calls>>

\* ---------------------------------------------------------------- bounds
MaxUsers == 3

MaxPlayers == 5

MaxRound == 3

MaxMatchNumber == 1

MaxStandMatches == 2

MaxConcPlayers == 3

MaxShufflePlayers == 4

MaxComparisons == 6

MaxAdvancing == 9

MaxOrderRound == 2

TwoDigitMatchNumber == 10

MaxCapacity == 2

MaxCloudCalls == 2

MaxCloudLeagues == 2

\* ------------------------------------------------------ program constants
Null == 0

LeagueId == "L1"

OtherLeagueId == "L2"

Users == 1..MaxUsers

NumDummyUsers == 8

DummyBase == 100

dummyUserIds == [i \in 1..NumDummyUsers |-> DummyBase + i]

Formats == {"single_elimination", "double_elimination", "round_robin"}

\* ------------------------------------------------------- generic helpers
Range(f) == {f[x] : x \in DOMAIN f}

Min(S) == CHOOSE x \in S : \A y \in S : x <= y

Max(S) == CHOOSE x \in S : \A y \in S : x >= y

\* The documents of a query in the order Firestore returns them (ascending
\* document id).  Member ids differ in the user id only, match ids in
\* (round, matchNumber).
RECURSIVE MemberDocsInOrder(_)
MemberDocsInOrder(S) ==
  IF S = {} THEN <<>>
  ELSE LET first == CHOOSE d \in S : \A e \in S : d.id[2] <= e.id[2]
       IN <<first>> \o MemberDocsInOrder(S \ {first})

\* The characters of a match id after the league id, as code points:
\* `_r${round}_m${matchNumber}`, the numbers in decimal.
CharZero == 48

CharUnderscore == 95

CharM == 109

CharR == 114

RECURSIVE Digits(_)
Digits(n) ==
  IF n < 10 THEN <<CharZero + n>>
  ELSE Digits(n \div 10) \o <<CharZero + (n % 10)>>

MatchIdChars(id) ==
  <<CharUnderscore, CharR>> \o Digits(id[2])
  \o <<CharUnderscore, CharM>> \o Digits(id[3])

\* the order of strings: by the first character that differs, a prefix first
RECURSIVE StringLeq(_, _)
StringLeq(s, t) ==
  IF s = <<>> THEN TRUE
  ELSE IF t = <<>> THEN FALSE
  ELSE IF Head(s) # Head(t) THEN Head(s) < Head(t)
  ELSE StringLeq(Tail(s), Tail(t))

\* two match ids of one league in document-id order: m10 is before m2.
\* Ids whose numbers have one digit each are strings of the same length that
\* differ in those digits only, so their order is the order of the numbers.
MatchIdLeq(a, b) ==
  IF a[2] < 10 /\ a[3] < 10 /\ b[2] < 10 /\ b[3] < 10
  THEN a[2] < b[2] \/ (a[2] = b[2] /\ a[3] <= b[3])
  ELSE StringLeq(MatchIdChars(a), MatchIdChars(b))

RECURSIVE MatchDocsInOrder(_)
MatchDocsInOrder(S) ==
  IF S = {} THEN <<>>
  ELSE LET first == CHOOSE d \in S : \A e \in S : MatchIdLeq(d.id, e.id)
       IN <<first>> \o MatchDocsInOrder(S \ {first})

\* setDoc(ref, data) without merge: creates the document or replaces it whole
SetDoc(col, id, data) ==
  [k \in (DOMAIN col) \cup {id} |-> IF k = id THEN data ELSE col[k]]

\* deleteDoc(ref)
DeleteDoc(col, id) == [k \in (DOMAIN col) \ {id} |-> col[k]]

RECURSIVE SetDocs(_, _)
SetDocs(col, docs) ==
  IF docs = <<>> THEN col
  ELSE SetDocs(SetDoc(col, Head(docs).id, Head(docs)), Tail(docs))

\* All orders of a finite set
Perms(S) ==
  {p \in [1..Cardinality(S) -> S] : \A i, j \in DOMAIN p : i # j => p[i] # p[j]}

\* ------------------------------------------------------------- queries
\* fault: the member query without its where('status','==','active') filter
MembersOfAnyStatus(l) == {d \in Range(leagueMembers) : d.leagueId = l}

\* query(collection(db,'leagueMembers'), where('leagueId','==',l),
\*       where('status','==','active'))
ActiveMembers(l) ==
  {d \in Range(leagueMembers) : d.leagueId = l /\ d.status = "active"}

\* fault: the match query without its where('leagueId','==',l) filter
LeagueMatchesOfAnyLeague(l) == Range(tournamentMatches)

\* query(collection(db,'tournamentMatches'), where('leagueId','==',l))
LeagueMatches(l) == {d \in Range(tournamentMatches) : d.leagueId = l}

\* ... plus where('status','==','completed')
CompletedMatches(l) == {d \in LeagueMatches(l) : d.status = "completed"}

\* A match document without a result field: m.result?.winnerId is undefined
NoResult == [winnerId |-> Null, player1Score |-> Null, player2Score |-> Null]

MemberDoc(l, uid, role) ==
  [id |-> <<l, uid>>, leagueId |-> l, userId |-> uid, role |-> role,
   status |-> "active"]

\* --------------------------------------------- generateBracketMatches
\* Math.ceil(Math.log2(n)) for n >= 1: the least r with 2^r >= n
RECURSIVE CeilLog2From(_, _, _)
CeilLog2From(n, r, pow) ==
  IF pow >= n THEN r ELSE CeilLog2From(n, r + 1, 2 * pow)

numRounds(numParticipants) == CeilLog2From(numParticipants, 0, 1)

\* fault: one pair too few is formed when the count is even
firstRoundMatchesShort(numParticipants) == (numParticipants - 1) \div 2

firstRoundMatches(numParticipants) == numParticipants \div 2

byes(numParticipants) ==
  numParticipants - (firstRoundMatches(numParticipants) * 2)

\* fault: the pairing loop steps by one, shuffledMembers[i] against
\* shuffledMembers[i+1]
PairedMatchesOverlapping(l, shuffledMembers) ==
  [k \in 1..firstRoundMatches(Len(shuffledMembers)) |->
     [id |-> <<l, 1, k>>, leagueId |-> l, round |-> 1, matchNumber |-> k,
      player1Id |-> shuffledMembers[k].userId,
      player2Id |-> shuffledMembers[k + 1].userId,
      status |-> "pending", result |-> NoResult]]

\* the first for loop: shuffledMembers[i*2] against shuffledMembers[i*2+1]
PairedMatches(l, shuffledMembers) ==
  [k \in 1..firstRoundMatches(Len(shuffledMembers)) |->
     [id |-> <<l, 1, k>>, leagueId |-> l, round |-> 1, matchNumber |-> k,
      player1Id |-> shuffledMembers[2 * k - 1].userId,
      player2Id |-> shuffledMembers[2 * k].userId,
      status |-> "pending", result |-> NoResult]]

\* fault: a bye is written like an ordinary match, still to be played
ByeStatusPending == "pending"

ByeStatus == "completed"

\* fault: the bye loop counts its matches from 1 again
ByeMatchesRenumbered(l, shuffledMembers) ==
  LET first == firstRoundMatches(Len(shuffledMembers))
  IN [k \in 1..byes(Len(shuffledMembers)) |->
        LET player == shuffledMembers[first * 2 + k]
        IN [id |-> <<l, 1, k>>, leagueId |-> l, round |-> 1,
            matchNumber |-> k,
            player1Id |-> player.userId, player2Id |-> Null,
            status |-> ByeStatus,
            result |-> [winnerId |-> player.userId,
                        player1Score |-> 1, player2Score |-> 0]]]

\* the bye loop: the leftover players win without an opponent
ByeMatches(l, shuffledMembers) ==
  LET first == firstRoundMatches(Len(shuffledMembers))
  IN [k \in 1..byes(Len(shuffledMembers)) |->
        LET player == shuffledMembers[first * 2 + k]
        IN [id |-> <<l, 1, first + k>>, leagueId |-> l, round |-> 1,
            matchNumber |-> first + k,
            player1Id |-> player.userId, player2Id |-> Null,
            status |-> ByeStatus,
            result |-> [winnerId |-> player.userId,
                        player1Score |-> 1, player2Score |-> 0]]]

\* fault: Math.floor instead of Math.ceil in the halving
nextRoundMatchesFloor(currentRoundMatches) == currentRoundMatches \div 2

nextRoundMatches(currentRoundMatches) == (currentRoundMatches + 1) \div 2

\* fault: the while loop stops one round early
MoreRoundsUntilTwo(currentRoundMatches) == currentRoundMatches > 2

MoreRounds(currentRoundMatches) == currentRoundMatches > 1

\* fault: the while loop is an if, only the round after the first is created
PlaceholderMatchesOneRound(l, currentRoundMatches, currentRound) ==
  IF MoreRounds(currentRoundMatches)
  THEN [k \in 1..nextRoundMatches(currentRoundMatches) |->
          [id |-> <<l, currentRound, k>>, leagueId |-> l,
           round |-> currentRound, matchNumber |-> k,
           player1Id |-> Null, player2Id |-> Null,
           status |-> "pending", result |-> NoResult]]
  ELSE <<>>

\* the while loop: placeholder matches of the rounds after the first
RECURSIVE PlaceholderMatches(_, _, _)
PlaceholderMatches(l, currentRoundMatches, currentRound) ==
  IF MoreRounds(currentRoundMatches)
  THEN [k \in 1..nextRoundMatches(currentRoundMatches) |->
          [id |-> <<l, currentRound, k>>, leagueId |-> l,
           round |-> currentRound, matchNumber |-> k,
           player1Id |-> Null, player2Id |-> Null,
           status |-> "pending", result |-> NoResult]]
       \o PlaceholderMatches(l, nextRoundMatches(currentRoundMatches),
                             currentRound + 1)
  ELSE <<>>

HasPlaceholderRounds(tournamentFormat) ==
  tournamentFormat = "single_elimination"

matchesToCreate(l, shuffledMembers, tournamentFormat) ==
  LET n == Len(shuffledMembers)
  IN PairedMatches(l, shuffledMembers) \o ByeMatches(l, shuffledMembers)
     \o (IF HasPlaceholderRounds(tournamentFormat)
         THEN PlaceholderMatches(l, firstRoundMatches(n) + byes(n), 2)
         ELSE <<>>)

\* [...members].sort(() => Math.random() - 0.5): the comparator is random,
\* so the result is some order of the members, any of them
Shuffles(members) == Perms(members)

IsOwnerOrAdmin(leagueData, uid) ==
  \/ leagueData.ownerId = uid
  \/ (leagueData.adminsIsArray /\ uid \in leagueData.admins)

\* fault: only single_elimination passes the format test
IsSingleElimination(tournamentFormat) ==
  tournamentFormat = "single_elimination"

IsBracketFormat(tournamentFormat) ==
  tournamentFormat = "single_elimination" \/ tournamentFormat = "double_elimination"

\* fault: the existing-matches test is off by one and lets a single stored
\* match through
SeveralMatchesExist(l) == Cardinality(LeagueMatches(l)) > 1

MatchesExist(l) == Cardinality(LeagueMatches(l)) > 0

EnoughParticipants(members) == ~(Cardinality(members) < 2)

\* no call is in flight
NoCalls == <<>>

\* What the last call did: the operation, the message of the Error it threw
\* ("" when it returned) and the value it returned (reads only).
Ret(op, error) == [op |-> op, error |-> error, value |-> Null]

RetValue(op, value) == [op |-> op, error |-> "", value |-> value]

ErrSignedOut == "You must be signed in."

ErrNoLeague == "League not found."

ErrNotAdmin == "Only league owners and admins can generate matches."

ErrFormat == "Match generation is only available for bracket tournaments."

ErrExist == "Matches already exist for this tournament. Delete existing matches first to regenerate."

ErrFew == "Need at least 2 participants to generate matches."

\* The precondition that fails first, in the order the code tests them;
\* "" when all hold.
GenerateError(l, uid) ==
  IF uid = Null THEN ErrSignedOut
  ELSE IF l \notin DOMAIN leagues THEN ErrNoLeague
  ELSE IF ~IsOwnerOrAdmin(leagues[l], uid) THEN ErrNotAdmin
  ELSE IF ~IsBracketFormat(leagues[l].tournamentFormat) THEN ErrFormat
  ELSE IF MatchesExist(l) THEN ErrExist
  ELSE IF ~EnoughParticipants(ActiveMembers(l)) THEN ErrFew
  ELSE ""

\* fault: the first match document is written before the preconditions are
\* tested
GenerateBracketMatchesWritesThenFails(l, uid) ==
  /\ GenerateError(l, uid) # ""
  /\ ret' = Ret("generateBracketMatches", GenerateError(l, uid))
  /\ tournamentMatches' =
       SetDoc(tournamentMatches, <<l, 1, 1>>,
              [id |-> <<l, 1, 1>>, leagueId |-> l, round |-> 1,
               matchNumber |-> 1, player1Id |-> Null, player2Id |-> Null,
               status |-> "pending", result |-> NoResult])
  /\ UNCHANGED <<leagues, leagueMembers, generated, calls>>

GenerateBracketMatchesFails(l, uid) ==
  /\ GenerateError(l, uid) # ""
  /\ ret' = Ret("generateBracketMatches", GenerateError(l, uid))
  /\ UNCHANGED <<leagues, leagueMembers, tournamentMatches, generated, calls>>

GenerateBracketMatchesOk(l, uid) ==
  /\ GenerateError(l, uid) = ""
  /\ \E shuffledMembers \in Shuffles(ActiveMembers(l)) :
       LET toCreate == matchesToCreate(l, shuffledMembers,
                                       leagues[l].tournamentFormat)
       IN /\ tournamentMatches' = SetDocs(tournamentMatches, toCreate)
          /\ generated' = Len(toCreate)
          /\ ret' = Ret("generateBracketMatches", "")
  /\ UNCHANGED <<leagues, leagueMembers, calls>>

generateBracketMatches(l, uid) ==
  \/ GenerateBracketMatchesFails(l, uid)
  \/ GenerateBracketMatchesOk(l, uid)

\* ------------------------------------------------------- joinTournament
JoinError(l, uid) ==
  IF uid = Null THEN ErrSignedOut
  ELSE IF l \notin DOMAIN leagues THEN ErrNoLeague
  ELSE IF /\ leagues[l].maxParticipants # Null
          /\ Cardinality(ActiveMembers(l)) >= leagues[l].maxParticipants
    THEN "Tournament is full. Maximum participants reached."
  ELSE IF <<l, uid>> \in DOMAIN leagueMembers
    THEN "You are already a member of this tournament."
  ELSE ""

joinTournament(l, uid) ==
  /\ ret' = Ret("joinTournament", JoinError(l, uid))
  /\ leagueMembers' =
       IF JoinError(l, uid) = ""
       THEN SetDoc(leagueMembers, <<l, uid>>, MemberDoc(l, uid, "member"))
       ELSE leagueMembers
  /\ UNCHANGED <<leagues, tournamentMatches, generated, calls>>

\* fault: removing a member also deletes the matches the member plays in
removeMemberAndMatches(l, userId) ==
  /\ leagueMembers' = DeleteDoc(leagueMembers, <<l, userId>>)
  /\ tournamentMatches' =
       [id \in {k \in DOMAIN tournamentMatches :
                  ~(/\ tournamentMatches[k].leagueId = l
                    /\ userId \in {tournamentMatches[k].player1Id,
                                   tournamentMatches[k].player2Id})} |->
          tournamentMatches[id]]
  /\ ret' = Ret("removeMember", "")
  /\ UNCHANGED <<leagues, generated, calls>>

\* ---------------------------------------------------------- removeMember
removeMember(l, userId) ==
  /\ leagueMembers' = DeleteDoc(leagueMembers, <<l, userId>>)
  /\ ret' = Ret("removeMember", "")
  /\ UNCHANGED <<leagues, tournamentMatches, generated, calls>>

\* -------------------------------------------------- getTournamentBracket
\* fault: the comparator without its tie-break on matchNumber
MatchBeforeByRound(a, b) == a.round < b.round

\* the comparator of matches.sort: negative when a goes before b
MatchBefore(a, b) ==
  IF a.round # b.round THEN a.round < b.round
  ELSE a.matchNumber < b.matchNumber

RemoveAt(seq, i) == SubSeq(seq, 1, i - 1) \o SubSeq(seq, i + 1, Len(seq))

\* Array.prototype.sort is stable: of the elements no other goes before,
\* the first one comes first
RECURSIVE SortMatches(_)
SortMatches(seq) ==
  IF seq = <<>> THEN <<>>
  ELSE LET i == CHOOSE i \in 1..Len(seq) :
                  /\ \A j \in 1..Len(seq) : ~MatchBefore(seq[j], seq[i])
                  /\ \A j \in 1..(i - 1) :
                        \E k \in 1..Len(seq) : MatchBefore(seq[k], seq[j])
       IN <<seq[i]>> \o SortMatches(RemoveAt(seq, i))

\* fault: a match in progress is taken for a finished one
IsPending(m) == m.status = "pending"

IsIncomplete(m) == m.status # "completed"

rounds(matches) == Max({m.round : m \in matches} \cup {0})

\* fault: when every match is completed the round after the last is given
currentRoundAfterLast(matches) ==
  LET least == Min({m.round : m \in {x \in matches : IsIncomplete(x)}}
                   \cup {rounds(matches) + 1})
  IN IF least = 0 THEN 1 ELSE least

currentRound(matches) ==
  LET least == Min({m.round : m \in {x \in matches : IsIncomplete(x)}}
                   \cup {rounds(matches)})
  IN IF least = 0 THEN 1 ELSE least

NullBracket == [isNull |-> TRUE, matches |-> <<>>, rounds |-> 0,
                currentRound |-> 0]

getTournamentBracket(l) ==
  LET matches == LeagueMatches(l)
  IN IF Cardinality(matches) = 0 THEN NullBracket
     ELSE [isNull |-> FALSE,
           matches |-> SortMatches(MatchDocsInOrder(matches)),
           rounds |-> rounds(matches),
           currentRound |-> currentRound(matches)]

\* fault: the reader refuses a bracket that has no final yet
GetTournamentBracketNeedsFinal(l) ==
  /\ ret' = IF \/ LeagueMatches(l) = {}
               \/ \E r \in 1..rounds(LeagueMatches(l)) :
                    Cardinality({m \in LeagueMatches(l) : m.round = r}) = 1
            THEN RetValue("getTournamentBracket", getTournamentBracket(l))
            ELSE Ret("getTournamentBracket", "Bracket is incomplete.")
  /\ UNCHANGED <<leagues, leagueMembers, tournamentMatches, generated, calls>>

\* fault: the reader stores the sorted list back, marking the matches of
\* the current round as started
GetTournamentBracketStartsRound(l) ==
  /\ ret' = RetValue("getTournamentBracket", getTournamentBracket(l))
  /\ tournamentMatches' =
       [id \in DOMAIN tournamentMatches |->
          IF /\ tournamentMatches[id].leagueId = l
             /\ tournamentMatches[id].status = "pending"
             /\ tournamentMatches[id].round = currentRound(LeagueMatches(l))
          THEN [tournamentMatches[id] EXCEPT !.status = "in_progress"]
          ELSE tournamentMatches[id]]
  /\ UNCHANGED <<leagues, leagueMembers, generated, calls>>

GetTournamentBracket(l) ==
  /\ ret' = RetValue("getTournamentBracket", getTournamentBracket(l))
  /\ UNCHANGED <<leagues, leagueMembers, tournamentMatches, generated, calls>>

\* ------------------------------------------------ getTournamentStandings
RECURSIVE GCD(_, _)
GCD(a, b) == IF b = 0 THEN a ELSE GCD(b, a % b)

\* a rate num/den as a fraction in lowest terms, so that equal rates are
\* equal values
Rate(num, den) == LET g == GCD(num, den) IN <<num \div g, den \div g>>

RateLess(r, q) == r[1] * q[2] < q[1] * r[2]

wins(matches, member) ==
  Cardinality({m \in matches : m.result.winnerId = member.userId})

\* fault: the loss filter without its test on the winner
IsLossWhoeverWon(m, member) ==
  /\ (m.player1Id = member.userId \/ m.player2Id = member.userId)
  /\ m.status = "completed"

IsLoss(m, member) ==
  /\ (m.player1Id = member.userId \/ m.player2Id = member.userId)
  /\ m.result.winnerId # member.userId
  /\ m.status = "completed"

losses(matches, member) == Cardinality({m \in matches : IsLoss(m, member)})

\* fault: the rate is left a fraction, not multiplied by 100
winRateAsFraction(w, l) == IF w + l > 0 THEN Rate(w, w + l) ELSE Rate(0, 1)

winRate(w, l) == IF w + l > 0 THEN Rate(w * 100, w + l) ELSE Rate(0, 1)

Standing(matches, member) ==
  [id |-> member.id, leagueId |-> member.leagueId, userId |-> member.userId,
   role |-> member.role, status |-> member.status,
   wins |-> wins(matches, member), losses |-> losses(matches, member),
   winRate |-> winRate(wins(matches, member), losses(matches, member))]

\* fault: the comparator without its tie-break on winRate
StandingBeforeByWinsOnly(a, b) == b.wins < a.wins

\* the comparator of standings.sort: a goes before b
StandingBefore(a, b) ==
  IF b.wins # a.wins THEN b.wins < a.wins
  ELSE RateLess(b.winRate, a.winRate)

RECURSIVE SortStandings(_)
SortStandings(seq) ==
  IF seq = <<>> THEN <<>>
  ELSE LET i == CHOOSE i \in 1..Len(seq) :
                  /\ \A j \in 1..Len(seq) : ~StandingBefore(seq[j], seq[i])
                  /\ \A j \in 1..(i - 1) :
                        \E k \in 1..Len(seq) : StandingBefore(seq[k], seq[j])
       IN <<seq[i]>> \o SortStandings(RemoveAt(seq, i))

getTournamentStandings(l) ==
  LET members == MemberDocsInOrder(ActiveMembers(l))
      matches == CompletedMatches(l)
  IN SortStandings([i \in 1..Len(members) |-> Standing(matches, members[i])])

GetTournamentStandings(l) ==
  /\ ret' = RetValue("getTournamentStandings", getTournamentStandings(l))
  /\ UNCHANGED <<leagues, leagueMembers, tournamentMatches, generated, calls>>

\* ------------------------------------------------ addDummyTournamentData
ErrDummyNotAdmin == "Only league owners and admins can add dummy data."

ErrDummyExist == "Matches already exist for this tournament. Delete existing matches first."

\* fault: the winner is stored as its index in dummyUserIds
DummyMatchWinnerIndex(l, round, matchNumber, p1, p2, winner, score1, score2) ==
  [id |-> <<l, round, matchNumber>>, leagueId |-> l, round |-> round,
   matchNumber |-> matchNumber,
   player1Id |-> dummyUserIds[p1], player2Id |-> dummyUserIds[p2],
   status |-> "completed",
   result |-> [winnerId |-> winner,
               player1Score |-> score1, player2Score |-> score2]]

DummyMatch(l, round, matchNumber, p1, p2, winner, score1, score2) ==
  [id |-> <<l, round, matchNumber>>, leagueId |-> l, round |-> round,
   matchNumber |-> matchNumber,
   player1Id |-> dummyUserIds[p1], player2Id |-> dummyUserIds[p2],
   status |-> "completed",
   result |-> [winnerId |-> dummyUserIds[winner],
               player1Score |-> score1, player2Score |-> score2]]

round1Matches(l) ==
  << DummyMatch(l, 1, 1, 1, 2, 1, 3, 1), DummyMatch(l, 1, 2, 3, 4, 4, 0, 2),
     DummyMatch(l, 1, 3, 5, 6, 5, 5, 3), DummyMatch(l, 1, 4, 7, 8, 8, 1, 4) >>

round2Matches(l) ==
  << DummyMatch(l, 2, 1, 1, 4, 1, 4, 2), DummyMatch(l, 2, 2, 5, 8, 5, 3, 1) >>

round3Match(l) == DummyMatch(l, 3, 1, 1, 5, 1, 5, 3)

DummyError(l, uid) ==
  IF uid = Null THEN ErrSignedOut
  ELSE IF l \notin DOMAIN leagues THEN ErrNoLeague
  ELSE IF ~IsOwnerOrAdmin(leagues[l], uid) THEN ErrDummyNotAdmin
  ELSE ""

\* the member loop: a dummy member is written unless its document exists
RECURSIVE WithDummyMembers(_, _, _)
WithDummyMembers(col, l, i) ==
  IF i > NumDummyUsers THEN col
  ELSE WithDummyMembers(
         IF <<l, dummyUserIds[i]>> \in DOMAIN col THEN col
         ELSE SetDoc(col, <<l, dummyUserIds[i]>>,
                     MemberDoc(l, dummyUserIds[i], "member")),
         l, i + 1)

AddDummyTournamentDataFails(l, uid) ==
  /\ DummyError(l, uid) # ""
  /\ ret' = Ret("addDummyTournamentData", DummyError(l, uid))
  /\ UNCHANGED <<leagues, leagueMembers, tournamentMatches, generated, calls>>

AddDummyTournamentDataRuns(l, uid) ==
  /\ DummyError(l, uid) = ""
  /\ leagues' =
       IF leagues[l].tournamentFormat # "single_elimination"
       THEN [leagues EXCEPT ![l].tournamentFormat = "single_elimination",
                            ![l].maxParticipants = NumDummyUsers]
       ELSE leagues
  /\ leagueMembers' = WithDummyMembers(leagueMembers, l, 1)
  /\ IF MatchesExist(l)
     THEN /\ ret' = Ret("addDummyTournamentData", ErrDummyExist)
          /\ UNCHANGED tournamentMatches
     ELSE LET toCreate == round1Matches(l) \o round2Matches(l)
                          \o <<round3Match(l)>>
          IN /\ tournamentMatches' = SetDocs(tournamentMatches, toCreate)
             /\ ret' = Ret("addDummyTournamentData", "")
  /\ UNCHANGED <<generated, calls>>

addDummyTournamentData(l, uid) ==
  \/ AddDummyTournamentDataFails(l, uid)
  \/ AddDummyTournamentDataRuns(l, uid)

\* ---------------------------------------------------------- deleteLeague
ErrNotSignedIn == "Not signed in"

\* deleteByQuery('leagueMembers', 'leagueId', l): every member document of
\* the league is deleted
DeleteByLeague(col, l) ==
  [k \in {id \in DOMAIN col : col[id].leagueId # l} |-> col[k]]

deleteLeague(l, uid) ==
  IF uid = Null
  THEN /\ ret' = Ret("deleteLeague", ErrNotSignedIn)
       /\ UNCHANGED <<leagues, leagueMembers, tournamentMatches, generated, calls>>
  ELSE /\ leagueMembers' = DeleteByLeague(leagueMembers, l)
       /\ leagues' = DeleteDoc(leagues, l)
       /\ ret' = Ret("deleteLeague", "")
       /\ UNCHANGED <<tournamentMatches, generated, calls>>

\* ------------------------------------------------------------ the system
\* A league as handleCreateLeague writes it (owner 1, who is also its first
\* member and admin) and as the edit screen then configures it.  Its admins
\* field is absent (the league document of the createLeague function has
\* none) or lists the owner and a second admin.  The collections are shared:
\* another league's member and match are present.
OwnerId == 1

AdminId == 2

OutsiderId == 3

LeagueDoc(tournamentFormat, adminsIsArray, admins, maxParticipants) ==
  [ownerId |-> OwnerId, adminsIsArray |-> adminsIsArray, admins |-> admins,
   tournamentFormat |-> tournamentFormat,
   maxParticipants |-> maxParticipants]

OtherLeagueMatch ==
  [id |-> <<OtherLeagueId, 1, 1>>, leagueId |-> OtherLeagueId, round |-> 1,
   matchNumber |-> 1, player1Id |-> 1, player2Id |-> 2,
   status |-> "pending", result |-> NoResult]

OtherLeagueMember == MemberDoc(OtherLeagueId, AdminId, "admin")

InitLeague ==
  \E f \in Formats, a \in {{}, {OwnerId, AdminId}} :
    leagues = (LeagueId :> LeagueDoc(f, a # {}, a, Null))

Init ==
  /\ InitLeague
  /\ leagueMembers =
       (<<LeagueId, OwnerId>> :> MemberDoc(LeagueId, OwnerId, "admin"))
       @@ (OtherLeagueMember.id :> OtherLeagueMember)
  /\ tournamentMatches = (OtherLeagueMatch.id :> OtherLeagueMatch)
  /\ ret = Ret("", "")
  /\ generated = 0
  /\ calls = NoCalls

\* the signed-in user of a call: nobody, the owner, an admin, somebody else
Callers == {Null, OwnerId, AdminId, OutsiderId}

Next ==
  \/ \E uid \in Callers : generateBracketMatches(LeagueId, uid)
  \/ \E uid \in Users \cup {Null} : joinTournament(LeagueId, uid)
  \/ \E userId \in Users : removeMember(LeagueId, userId)
  \/ \E uid \in Callers : addDummyTournamentData(LeagueId, uid)
  \/ \E uid \in Callers : deleteLeague(LeagueId, uid)
  \/ GetTournamentBracket(LeagueId)
  \/ GetTournamentStandings(LeagueId)

Spec == Init /\ [][Next]_vars

\* --------------------------------------------- the generator on every pool
RECURSIVE WithMembers(_, _, _)
WithMembers(col, l, n) ==
  IF n = 0 THEN col
  ELSE WithMembers(SetDoc(col, <<l, n>>, MemberDoc(l, n, "member")), l, n - 1)

InitGen ==
  /\ InitLeague
  /\ \E n \in 0..MaxPlayers :
       leagueMembers =
         WithMembers((OtherLeagueMember.id :> OtherLeagueMember), LeagueId, n)
  /\ tournamentMatches = (OtherLeagueMatch.id :> OtherLeagueMatch)
  /\ ret = Ret("", "")
  /\ generated = 0
  /\ calls = NoCalls

NextGen ==
  \/ \E uid \in Callers : generateBracketMatches(LeagueId, uid)
  \/ GetTournamentBracket(LeagueId)
  \/ GetTournamentStandings(LeagueId)

SpecGen == InitGen /\ [][NextGen]_vars

\* ------------------------------------------- the reader on every collection
\* A match document of the league in one of the three states of MatchStatus
StoredMatch(l, round, matchNumber, status) ==
  [id |-> <<l, round, matchNumber>>, leagueId |-> l, round |-> round,
   matchNumber |-> matchNumber, player1Id |-> OwnerId, player2Id |-> AdminId,
   status |-> status,
   result |-> IF status = "completed"
              THEN [winnerId |-> OwnerId, player1Score |-> 1,
                    player2Score |-> 0]
              ELSE NoResult]

MatchStatuses == {"pending", "in_progress", "completed"}

MatchKeys == (1..MaxRound) \X (1..MaxMatchNumber)

InitRead ==
  /\ InitLeague
  /\ leagueMembers = (OtherLeagueMember.id :> OtherLeagueMember)
  /\ \E present \in SUBSET MatchKeys :
       \E status \in [present -> MatchStatuses] :
         tournamentMatches =
           [id \in {<<LeagueId, k[1], k[2]>> : k \in present}
                   \cup {OtherLeagueMatch.id} |->
              IF id = OtherLeagueMatch.id THEN OtherLeagueMatch
              ELSE StoredMatch(LeagueId, id[2], id[3],
                               status[<<id[2], id[3]>>])]
  /\ ret = Ret("", "")
  /\ generated = 0
  /\ calls = NoCalls

NextRead == GetTournamentBracket(LeagueId)

SpecRead == InitRead /\ [][NextRead]_vars

\* ------------------------------- the reader and the order of the documents
\* Stores whose matches are numbered 1, 2 and a number of two digits (a first
\* round of twenty or more members), each match absent, pending or completed.
OrderMatchNumbers == {1, 2, TwoDigitMatchNumber}

OrderKeys == (1..MaxOrderRound) \X OrderMatchNumbers

InitOrder ==
  /\ leagues = (LeagueId :> LeagueDoc("single_elimination", TRUE, {OwnerId}, Null))
  /\ leagueMembers = (OtherLeagueMember.id :> OtherLeagueMember)
  /\ \E present \in SUBSET OrderKeys :
       \E status \in [present -> {"pending", "completed"}] :
         tournamentMatches =
           [id \in {<<LeagueId, k[1], k[2]>> : k \in present}
                   \cup {OtherLeagueMatch.id} |->
              IF id = OtherLeagueMatch.id THEN OtherLeagueMatch
              ELSE StoredMatch(LeagueId, id[2], id[3],
                               status[<<id[2], id[3]>>])]
  /\ ret = Ret("", "")
  /\ generated = 0
  /\ calls = NoCalls

NextOrder == GetTournamentBracket(LeagueId)

SpecOrder == InitOrder /\ [][NextOrder]_vars

\* ------------------------------------- the readers on every small league
\* setMemberRole on a user without a membership document: setDoc with
\* merge creates a document that has a role and no userId and no status
\* ("" is the missing status)
RoleOnlyDoc(l, uid, role) ==
  [id |-> <<l, uid>>, leagueId |-> l, userId |-> Null, role |-> role,
   status |-> ""]

StandUsers == {OwnerId, AdminId, OutsiderId}

MemberKinds == {"absent", "active", "roleOnly"}

\* a match of round 1 between two users, pending or completed and won by
\* one of the two
PlayedMatch(l, matchNumber, p1, p2, winner) ==
  [id |-> <<l, 1, matchNumber>>, leagueId |-> l, round |-> 1,
   matchNumber |-> matchNumber, player1Id |-> p1, player2Id |-> p2,
   status |-> IF winner = Null THEN "pending" ELSE "completed",
   result |-> IF winner = Null THEN NoResult
              ELSE [winnerId |-> winner, player1Score |-> 1,
                    player2Score |-> 0]]

\* what a match slot can hold: nothing (<<>>) or <<p1, p2, winner>>
SlotContents ==
  {<<>>} \cup
  {<<p1, p2, w>> : p1 \in StandUsers, p2 \in StandUsers, w \in StandUsers \cup {Null}}

SlotChoices ==
  {c \in SlotContents :
     c = <<>> \/ (c[1] < c[2] /\ c[3] \in {Null, c[1], c[2]})}

InitStand ==
  /\ leagues = (LeagueId :> LeagueDoc("single_elimination", TRUE, {OwnerId}, Null))
  /\ \E kind \in [StandUsers -> MemberKinds] :
       leagueMembers =
         [id \in {<<LeagueId, u>> : u \in {x \in StandUsers : kind[x] # "absent"}}
                 \cup {OtherLeagueMember.id} |->
            IF id = OtherLeagueMember.id THEN OtherLeagueMember
            ELSE IF kind[id[2]] = "active"
                 THEN MemberDoc(LeagueId, id[2], "member")
                 ELSE RoleOnlyDoc(LeagueId, id[2], "admin")]
  /\ \E slot \in [1..MaxStandMatches -> SlotChoices] :
       tournamentMatches =
         [id \in {<<LeagueId, 1, k>> : k \in {x \in 1..MaxStandMatches : slot[x] # <<>>}}
                 \cup {OtherLeagueMatch.id} |->
            IF id = OtherLeagueMatch.id THEN OtherLeagueMatch
            ELSE PlayedMatch(LeagueId, id[3], slot[id[3]][1], slot[id[3]][2],
                             slot[id[3]][3])]
  /\ ret = Ret("", "")
  /\ generated = 0
  /\ calls = NoCalls

NextStand ==
  \/ GetTournamentStandings(LeagueId)
  \/ GetTournamentBracket(LeagueId)

SpecStand == InitStand /\ [][NextStand]_vars

\* ------------------------------ generateBracketMatches, await by await
\* Two owners/admins call generateBracketMatches on the same league.  A
\* call gives way to the other one at each await: after the league read, the
\* existing-matches query, the member query and every setDoc.
Procs == {OwnerId, AdminId}

\* fault: the document id without the round
MatchIdWithoutRound(l, round, matchNumber) == <<l, 1, matchNumber>>

\* the document id `${leagueId}_r${round}_m${matchNumber}`
MatchId(l, round, matchNumber) == <<l, round, matchNumber>>

\* the local variables of a call and the line it is at
Call(pc, tournamentFormat, sawNoMatch, toCreate, written, error) ==
  [pc |-> pc, tournamentFormat |-> tournamentFormat,
   sawNoMatch |-> sawNoMatch, toCreate |-> toCreate, written |-> written,
   error |-> error]

NotCalled == Call("start", "", FALSE, <<>>, 0, "")

Thrown(call, error) == [call EXCEPT !.pc = "done", !.error = error]

\* lines 164-190: the user, the league document, the role and the format
GenerateReadsLeague(l, p) ==
  /\ calls[p].pc = "start"
  /\ LET error == IF l \notin DOMAIN leagues THEN ErrNoLeague
                  ELSE IF ~IsOwnerOrAdmin(leagues[l], p) THEN ErrNotAdmin
                  ELSE IF ~IsBracketFormat(leagues[l].tournamentFormat)
                    THEN ErrFormat
                  ELSE ""
     IN IF error # ""
        THEN /\ calls' = [calls EXCEPT ![p] = Thrown(@, error)]
             /\ ret' = Ret("generateBracketMatches", error)
        ELSE /\ calls' = [calls EXCEPT ![p].pc = "existing",
                                       ![p].tournamentFormat =
                                          leagues[l].tournamentFormat]
             /\ UNCHANGED ret
  /\ UNCHANGED <<leagues, leagueMembers, tournamentMatches, generated>>

\* lines 194-201: the existing-matches query
GenerateChecksExisting(l, p) ==
  /\ calls[p].pc = "existing"
  /\ IF MatchesExist(l)
     THEN /\ calls' = [calls EXCEPT ![p] = Thrown(@, ErrExist)]
          /\ ret' = Ret("generateBracketMatches", ErrExist)
     ELSE /\ calls' = [calls EXCEPT ![p].pc = "members",
                                    ![p].sawNoMatch = TRUE]
          /\ UNCHANGED ret
  /\ UNCHANGED <<leagues, leagueMembers, tournamentMatches, generated>>

\* lines 204-315: the member query, the shuffle and the list of matches
GenerateReadsMembers(l, p) ==
  /\ calls[p].pc = "members"
  /\ IF ~EnoughParticipants(ActiveMembers(l))
     THEN /\ calls' = [calls EXCEPT ![p] = Thrown(@, ErrFew)]
          /\ ret' = Ret("generateBracketMatches", ErrFew)
     ELSE /\ \E shuffledMembers \in Shuffles(ActiveMembers(l)) :
               calls' = [calls EXCEPT
                           ![p].pc = "write",
                           ![p].toCreate =
                              matchesToCreate(l, shuffledMembers,
                                              calls[p].tournamentFormat)]
          /\ UNCHANGED ret
  /\ UNCHANGED <<leagues, leagueMembers, tournamentMatches, generated>>

\* line 323-328: the setDoc of the next match of the list; the call returns
\* after the last one
SetNextDoc(l, p) ==
  /\ LET matchData == calls[p].toCreate[calls[p].written + 1]
         matchId == MatchId(l, matchData.round, matchData.matchNumber)
         last == calls[p].written + 1 = Len(calls[p].toCreate)
     IN /\ tournamentMatches' =
             SetDoc(tournamentMatches, matchId,
                    [matchData EXCEPT !.id = matchId])
        /\ calls' = [calls EXCEPT ![p].written = @ + 1,
                                  ![p].pc = IF last THEN "done" ELSE "write"]
        /\ IF last
           THEN /\ ret' = Ret("generateBracketMatches", "")
                /\ generated' = Len(calls[p].toCreate)
           ELSE UNCHANGED <<ret, generated>>
  /\ UNCHANGED <<leagues, leagueMembers>>

\* fault: the first setDoc is given up when a match has appeared since the
\* existing-matches query
GenerateWritesIfStillNone(l, p) ==
  /\ calls[p].pc = "write"
  /\ IF calls[p].written = 0 /\ MatchesExist(l)
     THEN /\ calls' = [calls EXCEPT ![p] = Thrown(@, ErrExist)]
          /\ ret' = Ret("generateBracketMatches", ErrExist)
          /\ UNCHANGED <<leagues, leagueMembers, tournamentMatches, generated>>
     ELSE SetNextDoc(l, p)

\* lines 320-329: one turn of the write loop
GenerateWrites(l, p) ==
  /\ calls[p].pc = "write"
  /\ SetNextDoc(l, p)

\* the error a rejected setDoc throws (permission denied, quota, ...)
ErrSetDoc == "FirebaseError"

\* fault: a failed write loop deletes the documents it has written
GenerateWriteFailsAndRollsBack(l, p) ==
  /\ calls[p].pc = "write"
  /\ calls' = [calls EXCEPT ![p] = Thrown(@, ErrSetDoc)]
  /\ ret' = Ret("generateBracketMatches", ErrSetDoc)
  /\ tournamentMatches' =
       [id \in (DOMAIN tournamentMatches) \
                {MatchId(l, calls[p].toCreate[i].round,
                         calls[p].toCreate[i].matchNumber) :
                   i \in 1..calls[p].written} |-> tournamentMatches[id]]
  /\ UNCHANGED <<leagues, leagueMembers, generated>>

\* line 325: the awaited setDoc rejects; the error leaves the loop and the
\* function, nothing catches it and nothing is undone
GenerateWriteFails(l, p) ==
  /\ calls[p].pc = "write"
  /\ calls' = [calls EXCEPT ![p] = Thrown(@, ErrSetDoc)]
  /\ ret' = Ret("generateBracketMatches", ErrSetDoc)
  /\ UNCHANGED <<leagues, leagueMembers, tournamentMatches, generated>>

\* the caller calls again after the call has returned or thrown
GenerateCalledAgain(p) ==
  /\ calls[p].pc = "done"
  /\ calls' = [calls EXCEPT ![p] = NotCalled]
  /\ UNCHANGED <<leagues, leagueMembers, tournamentMatches, ret, generated>>

InitConc ==
  /\ \E f \in Formats :
       leagues = (LeagueId :> LeagueDoc(f, TRUE, {OwnerId, AdminId}, Null))
  /\ \E n \in 1..MaxConcPlayers :
       leagueMembers =
         WithMembers((OtherLeagueMember.id :> OtherLeagueMember), LeagueId, n)
  /\ tournamentMatches = (OtherLeagueMatch.id :> OtherLeagueMatch)
  /\ ret = Ret("", "")
  /\ generated = 0
  /\ calls = [p \in Procs |-> NotCalled]

NextConc ==
  \E p \in Procs :
    \/ GenerateReadsLeague(LeagueId, p)
    \/ GenerateChecksExisting(LeagueId, p)
    \/ GenerateReadsMembers(LeagueId, p)
    \/ GenerateWrites(LeagueId, p)
    \/ GenerateWriteFails(LeagueId, p)
    \/ GenerateCalledAgain(p)

SpecConc == InitConc /\ [][NextConc]_vars

\* ------------------- the readers between the writes of one generate call
\* The owner's generateBracketMatches call runs await by await; the two
\* readers are called at any moment, each reading the collections as they
\* are at its getDocs.
NextPartial ==
  \/ GenerateReadsLeague(LeagueId, OwnerId)
  \/ GenerateChecksExisting(LeagueId, OwnerId)
  \/ GenerateReadsMembers(LeagueId, OwnerId)
  \/ GenerateWrites(LeagueId, OwnerId)
  \/ GenerateWriteFails(LeagueId, OwnerId)
  \/ GenerateCalledAgain(OwnerId)
  \/ GetTournamentBracket(LeagueId)
  \/ GetTournamentStandings(LeagueId)

SpecPartial == InitConc /\ [][NextPartial]_vars

\* ------------------------------------------ joinTournament, await by await
\* Signed-in users who are not members call joinTournament on the same
\* league.  A call gives way to the others at each await: after the league
\* read, the active-member query, the read of its own member document, the
\* read of the user profile and the setDoc.
JoinUsers == Users \ {OwnerId}

ErrFull == "Tournament is full. Maximum participants reached."

ErrAlreadyMember == "You are already a member of this tournament."

\* the local variables of a joinTournament call and the line it is at
JoinCall(pc, maxParticipants, seen, error) ==
  [pc |-> pc, maxParticipants |-> maxParticipants, seen |-> seen,
   error |-> error]

JoinNotCalled == JoinCall("start", Null, Null, "")

JoinThrown(call, error) == [call EXCEPT !.pc = "done", !.error = error]

\* lines 34-43: the user and the league document; the member count is
\* queried only if maxParticipants is set
JoinReadsLeague(l, u) ==
  /\ calls[u].pc = "start"
  /\ IF l \notin DOMAIN leagues
     THEN /\ calls' = [calls EXCEPT ![u] = JoinThrown(@, ErrNoLeague)]
          /\ ret' = Ret("joinTournament", ErrNoLeague)
     ELSE /\ calls' = [calls EXCEPT
                         ![u].pc = IF leagues[l].maxParticipants # Null
                                   THEN "count" ELSE "member",
                         ![u].maxParticipants = leagues[l].maxParticipants]
          /\ UNCHANGED ret
  /\ UNCHANGED <<leagues, leagueMembers, tournamentMatches, generated>>

\* lines 46-57: the active-member query and the test on its size
JoinCountsMembers(l, u) ==
  /\ calls[u].pc = "count"
  /\ IF Cardinality(ActiveMembers(l)) >= calls[u].maxParticipants
     THEN /\ calls' = [calls EXCEPT ![u] = JoinThrown(@, ErrFull),
                                    ![u].seen = Cardinality(ActiveMembers(l))]
          /\ ret' = Ret("joinTournament", ErrFull)
     ELSE /\ calls' = [calls EXCEPT ![u].pc = "member",
                                    ![u].seen = Cardinality(ActiveMembers(l))]
          /\ UNCHANGED ret
  /\ UNCHANGED <<leagues, leagueMembers, tournamentMatches, generated>>

\* lines 61-68: the caller's own member document
JoinReadsMember(l, u) ==
  /\ calls[u].pc = "member"
  /\ IF <<l, u>> \in DOMAIN leagueMembers
     THEN /\ calls' = [calls EXCEPT ![u] = JoinThrown(@, ErrAlreadyMember)]
          /\ ret' = Ret("joinTournament", ErrAlreadyMember)
     ELSE /\ calls' = [calls EXCEPT ![u].pc = "profile"]
          /\ UNCHANGED ret
  /\ UNCHANGED <<leagues, leagueMembers, tournamentMatches, generated>>

\* lines 72-77: the user profile, read for the display name only
JoinReadsProfile(u) ==
  /\ calls[u].pc = "profile"
  /\ calls' = [calls EXCEPT ![u].pc = "write"]
  /\ UNCHANGED <<leagues, leagueMembers, tournamentMatches, ret, generated>>

\* lines 82-92: the setDoc of the member document; the call returns
JoinWrites(l, u) ==
  /\ calls[u].pc = "write"
  /\ leagueMembers' = SetDoc(leagueMembers, <<l, u>>, MemberDoc(l, u, "member"))
  /\ calls' = [calls EXCEPT ![u].pc = "done"]
  /\ ret' = Ret("joinTournament", "")
  /\ UNCHANGED <<leagues, tournamentMatches, generated>>

\* the user calls again after the call has returned or thrown
JoinCalledAgain(u) ==
  /\ calls[u].pc = "done"
  /\ calls' = [calls EXCEPT ![u] = JoinNotCalled]
  /\ UNCHANGED <<leagues, leagueMembers, tournamentMatches, ret, generated>>

\* the league as the edit screen configures it, with a limit of
\* 1..MaxCapacity participants or none; the owner is its first member
InitJoin ==
  /\ \E M \in {Null} \cup (1..MaxCapacity) :
       leagues = (LeagueId :> LeagueDoc("single_elimination", TRUE, {OwnerId}, M))
  /\ leagueMembers =
       (<<LeagueId, OwnerId>> :> MemberDoc(LeagueId, OwnerId, "admin"))
       @@ (OtherLeagueMember.id :> OtherLeagueMember)
  /\ tournamentMatches = (OtherLeagueMatch.id :> OtherLeagueMatch)
  /\ ret = Ret("", "")
  /\ generated = 0
  /\ calls = [u \in JoinUsers |-> JoinNotCalled]

NextJoin ==
  \E u \in JoinUsers :
    \/ JoinReadsLeague(LeagueId, u)
    \/ JoinCountsMembers(LeagueId, u)
    \/ JoinReadsMember(LeagueId, u)
    \/ JoinReadsProfile(u)
    \/ JoinWrites(LeagueId, u)
    \/ JoinCalledAgain(u)

SpecJoin == InitJoin /\ [][NextJoin]_vars

\* ---------------------------- the cloud functions createLeague and
\* joinLeagueByCode (src/functions/lib/index.js)
\* Here leagues holds the documents the functions write: a league has an
\* ownerId, an inviteCode and a memberCount, and its subcollection
\* leagues/{id}/members is the field members, a function from user id to
\* member document.  League ids are the numbers 1..MaxCloudLeagues (doc()
\* picks an unused one), invite codes are single letters.  The users
\* collection, which both functions update last, is not part of the model.
\* A call is one invocation: two calls may be made by the same user.
CloudCalls == 1..MaxCloudCalls

CloudLeagueIds == 1..MaxCloudLeagues

\* makeInviteCode: a random code
InviteCodes == {"A", "B"}

\* what a client can send as inviteCode: a code, in either case, or nothing
InviteCodeInputs == {"A", "a", "B", "b", ""}

\* String(inviteCode).toUpperCase()
ToUpperCase(inviteCode) ==
  IF inviteCode = "a" THEN "A" ELSE IF inviteCode = "b" THEN "B" ELSE inviteCode

ErrUnauthenticated == "You must be signed in."

ErrMissingNameOrSport == "Missing name or sport."

ErrMissingCode == "Missing invite code."

ErrNoLeagueWithCode == "No league found with that code."

CloudLeagueDoc(uid, inviteCode) ==
  [ownerId |-> uid, inviteCode |-> inviteCode, memberCount |-> 1,
   members |-> (uid :> [role |-> "owner"])]

\* createLeague, lines 57-92: one transaction sets the league document and
\* the owner's member document
createLeague(uid, hasNameAndSport) ==
  /\ IF uid = Null
     THEN /\ ret' = Ret("createLeague", ErrUnauthenticated)
          /\ UNCHANGED leagues
     ELSE IF ~hasNameAndSport
     THEN /\ ret' = Ret("createLeague", ErrMissingNameOrSport)
          /\ UNCHANGED leagues
     ELSE /\ \E leagueRef \in CloudLeagueIds \ DOMAIN leagues,
                inviteCode \in InviteCodes :
               leagues' = SetDoc(leagues, leagueRef,
                                 CloudLeagueDoc(uid, inviteCode))
          /\ ret' = Ret("createLeague", "")
  /\ UNCHANGED <<leagueMembers, tournamentMatches, generated, calls>>

\* the local variables of a joinLeagueByCode call and the line it is at
CloudCall(pc, uid, leagueRef, error) ==
  [pc |-> pc, uid |-> uid, leagueRef |-> leagueRef, error |-> error]

CloudNotCalled == CloudCall("start", Null, Null, "")

\* lines 95-113: the caller, the code and the league query with limit(1)
CloudJoinFindsLeague(c, uid, inviteCode) ==
  /\ calls[c].pc = "start"
  /\ LET found == {l \in DOMAIN leagues :
                     leagues[l].inviteCode = ToUpperCase(inviteCode)}
         error == IF uid = Null THEN ErrUnauthenticated
                  ELSE IF inviteCode = "" THEN ErrMissingCode
                  ELSE IF found = {} THEN ErrNoLeagueWithCode
                  ELSE ""
     IN IF error # ""
        THEN /\ calls' = [calls EXCEPT ![c] = CloudCall("done", uid, Null, error)]
             /\ ret' = Ret("joinLeagueByCode", error)
        ELSE /\ calls' = [calls EXCEPT
                            ![c] = CloudCall("already", uid, Min(found), "")]
             /\ UNCHANGED ret
  /\ UNCHANGED <<leagues, leagueMembers, tournamentMatches, generated>>

\* lines 115-118: memberRef.get(), outside the transaction; an existing
\* member gets the league id back
CloudJoinReadsMember(c) ==
  /\ calls[c].pc = "already"
  /\ IF calls[c].uid \in DOMAIN leagues[calls[c].leagueRef].members
     THEN /\ calls' = [calls EXCEPT ![c].pc = "done"]
          /\ ret' = Ret("joinLeagueByCode", "")
     ELSE /\ calls' = [calls EXCEPT ![c].pc = "transaction"]
          /\ UNCHANGED ret
  /\ UNCHANGED <<leagues, leagueMembers, tournamentMatches, generated>>

\* lines 119-125: the transaction sets the member document and increments
\* memberCount; it reads nothing
CloudJoinTransaction(c) ==
  /\ calls[c].pc = "transaction"
  /\ leagues' =
       [leagues EXCEPT
          ![calls[c].leagueRef].members =
             SetDoc(@, calls[c].uid, [role |-> "player"]),
          ![calls[c].leagueRef].memberCount = @ + 1]
  /\ calls' = [calls EXCEPT ![c].pc = "user"]
  /\ UNCHANGED <<leagueMembers, tournamentMatches, ret, generated>>

\* lines 126-130: the user document is updated and the call returns
CloudJoinReturns(c) ==
  /\ calls[c].pc = "user"
  /\ calls' = [calls EXCEPT ![c].pc = "done"]
  /\ ret' = Ret("joinLeagueByCode", "")
  /\ UNCHANGED <<leagues, leagueMembers, tournamentMatches, generated>>

\* the client calls the function again
CloudCalledAgain(c) ==
  /\ calls[c].pc = "done"
  /\ calls' = [calls EXCEPT ![c] = CloudNotCalled]
  /\ UNCHANGED <<leagues, leagueMembers, tournamentMatches, ret, generated>>

InitCloud ==
  /\ leagues = <<>>
  /\ leagueMembers = (OtherLeagueMember.id :> OtherLeagueMember)
  /\ tournamentMatches = (OtherLeagueMatch.id :> OtherLeagueMatch)
  /\ ret = Ret("", "")
  /\ generated = 0
  /\ calls = [c \in CloudCalls |-> CloudNotCalled]

NextCloud ==
  \/ \E uid \in {Null, OwnerId}, hasNameAndSport \in BOOLEAN :
       createLeague(uid, hasNameAndSport)
  \/ \E c \in CloudCalls :
       \/ \E uid \in {Null, OwnerId, AdminId}, inviteCode \in InviteCodeInputs :
            CloudJoinFindsLeague(c, uid, inviteCode)
       \/ CloudJoinReadsMember(c)
       \/ CloudJoinTransaction(c)
       \/ CloudJoinReturns(c)
       \/ CloudCalledAgain(c)

SpecCloud == InitCloud /\ [][NextCloud]_vars

\* ------------------------------------------- the shuffle, call by call
\* [...members].sort(() => Math.random() - 0.5), line 220.  Which pairs the
\* engine's sort compares, how often, and how it rearranges the copy after
\* an answer is the engine's choice; each answer of the comparator is the
\* sign of Math.random() - 0.5, negative or positive with probability 1/2
\* each, whatever the two members are.  The sort calls the comparator at
\* most MaxComparisons times.
Swap(seq, i, j) ==
  [k \in DOMAIN seq |-> IF k = i THEN seq[j] ELSE IF k = j THEN seq[i] ELSE seq[k]]

ComparatorAnswers == {"negative", "positive"}

\* one call of the comparator on the members at i and j, and the move the
\* sort makes on its answer
SortCompares ==
  /\ calls.pc = "sort"
  /\ calls.comparisons < MaxComparisons
  /\ \E i, j \in DOMAIN calls.shuffledMembers, answer \in ComparatorAnswers :
       /\ i < j
       /\ calls' = [calls EXCEPT
                      !.comparisons = @ + 1,
                      !.shuffledMembers =
                         IF answer = "positive" THEN Swap(@, i, j) ELSE @]
  /\ UNCHANGED <<leagues, leagueMembers, tournamentMatches, ret, generated>>

\* sort returns the copy as it is now; it has compared every member with
\* another one, which takes n - 1 calls at least
SortReturns ==
  /\ calls.pc = "sort"
  /\ calls.comparisons >= Len(calls.shuffledMembers) - 1
  /\ calls' = [calls EXCEPT !.pc = "sorted"]
  /\ UNCHANGED <<leagues, leagueMembers, tournamentMatches, ret, generated>>

InitShuffle ==
  /\ leagues = (LeagueId :> LeagueDoc("single_elimination", TRUE, {OwnerId}, Null))
  /\ \E n \in 2..MaxShufflePlayers :
       leagueMembers =
         WithMembers((OtherLeagueMember.id :> OtherLeagueMember), LeagueId, n)
  /\ tournamentMatches = (OtherLeagueMatch.id :> OtherLeagueMatch)
  /\ ret = Ret("", "")
  /\ generated = 0
  /\ calls = [pc |-> "sort", comparisons |-> 0,
              shuffledMembers |-> MemberDocsInOrder(ActiveMembers(LeagueId))]

NextShuffle ==
  \/ SortCompares
  \/ SortReturns

SpecShuffle == InitShuffle /\ [][NextShuffle]_vars

\* ================================================================ properties
\* the number of active members of the league
NumActive == Cardinality(ActiveMembers(LeagueId))

\* the stored matches of the league in round r, read off the collection
MatchesOfRound(r) ==
  {id \in DOMAIN tournamentMatches : id[1] = LeagueId /\ id[2] = r}

\* the highest round among the stored matches of the league (0: none)
HighestRound ==
  Max({id[2] : id \in {k \in DOMAIN tournamentMatches : k[1] = LeagueId}}
      \cup {0})

\* the smallest r with 2^r >= n
SmallestPower(n) == Min({r \in 0..n : 2 ^ r >= n})

LeagueFormat == leagues[LeagueId].tournamentFormat

\* C1: after a successful generateBracketMatches over n >= 2 active members,
\* round 1 holds exactly floor(n/2) matches with both players set and status
\* pending, exactly n - 2*floor(n/2) bye matches (player2Id null), and no
\* other match.
C1_FirstRoundShape ==
  generated > 0 =>
    LET n == NumActive
        round1 == {tournamentMatches[id] : id \in MatchesOfRound(1)}
        paired == {m \in round1 : /\ m.player1Id # Null
                                  /\ m.player2Id # Null
                                  /\ m.status = "pending"}
        bye == {m \in round1 : m.player2Id = Null}
    IN /\ n >= 2
       /\ Cardinality(paired) = n \div 2
       /\ Cardinality(bye) = n - 2 * (n \div 2)
       /\ Cardinality(bye) <= 1
       /\ round1 = paired \cup bye

\* C1 happens: five members were paired into two matches and one bye
C1_Witness ==
  /\ generated > 0
  /\ NumActive = 5
  /\ Cardinality(MatchesOfRound(1)) = 3
  /\ \E id \in MatchesOfRound(1) : tournamentMatches[id].player2Id = Null

\* C2 as stated: whatever accepted format the league has, the highest round
\* written by a successful generateBracketMatches is ceil(log2(n)).
C2_AsStated == generated > 0 => HighestRound = SmallestPower(NumActive)

\* C2: a successful generateBracketMatches over n >= 2 active members writes
\* rounds 1..ceil(log2(n)) when the league is single_elimination, and round 1
\* only when it is double_elimination.
C2_HighestRound ==
  generated > 0 =>
    /\ LeagueFormat = "single_elimination"
         => HighestRound = SmallestPower(NumActive)
    /\ LeagueFormat = "double_elimination" => HighestRound = 1
    /\ LeagueFormat \in {"single_elimination", "double_elimination"}

\* C2 happens: a single_elimination bracket of five members has three rounds
C2_Witness ==
  /\ generated > 0
  /\ LeagueFormat = "single_elimination"
  /\ NumActive = 5
  /\ HighestRound = 3

\* C3 as stated: whatever accepted format the league has, the highest round
\* stored after a successful generateBracketMatches holds exactly one match.
C3_AsStated ==
  generated > 0 => Cardinality(MatchesOfRound(HighestRound)) = 1

\* C3: after a successful generateBracketMatches on a single_elimination
\* league the highest round holds exactly one match; on a double_elimination
\* league it is round 1 with all its ceil(n/2) matches.
C3_FinalRound ==
  generated > 0 =>
    /\ LeagueFormat = "single_elimination"
         => Cardinality(MatchesOfRound(HighestRound)) = 1
    /\ LeagueFormat = "double_elimination"
         => Cardinality(MatchesOfRound(HighestRound)) = (NumActive + 1) \div 2

\* C3 happens: three members, a match and a bye, then the final in round 2
C3_Witness ==
  /\ generated > 0
  /\ LeagueFormat = "single_elimination"
  /\ NumActive = 3
  /\ HighestRound = 2
  /\ Cardinality(MatchesOfRound(1)) = 2
  /\ Cardinality(MatchesOfRound(2)) = 1

\* the match documents of the league, read off the collection
StoredMatches ==
  {tournamentMatches[id] :
     id \in {k \in DOMAIN tournamentMatches : k[1] = LeagueId}}

\* C4: once a generateBracketMatches call has succeeded, every later call
\* fails and leaves the stored matches as they were; a later call by a
\* signed-in owner or admin of the league fails with the
\* matches-already-exist error.
C4_SecondGenerateFails ==
  [][\A uid \in Callers :
       (generated > 0 /\ generateBracketMatches(LeagueId, uid)) =>
         /\ ret'.error # ""
         /\ tournamentMatches' = tournamentMatches
         /\ (/\ uid # Null
             /\ LeagueId \in DOMAIN leagues
             /\ (uid = leagues[LeagueId].ownerId
                 \/ uid \in leagues[LeagueId].admins))
            => ret'.error = ErrExist]_vars

\* C4 happens: a bracket was generated and a second call was refused
C4_Witness ==
  /\ generated > 0
  /\ ret.op = "generateBracketMatches"
  /\ ret.error = ErrExist
  /\ Cardinality(StoredMatches) = generated

\* C5 as stated: on a double_elimination league generateBracketMatches fails
\* and no match document of the league is written.
C5_AsStated ==
  (LeagueId \in DOMAIN leagues /\ LeagueFormat = "double_elimination") =>
    /\ ret.op = "generateBracketMatches" => ret.error # ""
    /\ StoredMatches = {}

\* C5: on a double_elimination league generateBracketMatches is never
\* refused for the format; when it succeeds it writes the ceil(n/2) round-1
\* matches and no match of a later round.
C5_DoubleEliminationAccepted ==
  (LeagueId \in DOMAIN leagues /\ LeagueFormat = "double_elimination") =>
    /\ ret.error # ErrFormat
    /\ generated > 0 =>
         /\ Cardinality(StoredMatches) = (NumActive + 1) \div 2
         /\ \A m \in StoredMatches : m.round = 1

\* C5 happens: a double_elimination league of five got its three round-1
\* matches
C5_Witness ==
  /\ LeagueFormat = "double_elimination"
  /\ ret.op = "generateBracketMatches"
  /\ ret.error = ""
  /\ NumActive = 5
  /\ Cardinality(StoredMatches) = 3

\* the messages of the six preconditions of generateBracketMatches
PreconditionErrors ==
  {ErrSignedOut, ErrNoLeague, ErrNotAdmin, ErrFormat, ErrExist, ErrFew}

\* C6: a generateBracketMatches call that fails on one of its six
\* preconditions leaves the league, member and match collections exactly as
\* they were.
C6_FailureWritesNothing ==
  [][(ret'.op = "generateBracketMatches" /\ ret'.error \in PreconditionErrors)
       => /\ leagues' = leagues
          /\ leagueMembers' = leagueMembers
          /\ tournamentMatches' = tournamentMatches]_vars

\* C6 happens: a call was refused for lack of participants
C6_Witness ==
  /\ ret.op = "generateBracketMatches"
  /\ ret.error = ErrFew
  /\ StoredMatches = {}

\* C7: getTournamentBracket returns null exactly when the league has no
\* stored match; after a successful generateBracketMatches it returns a
\* bracket whose matches list has as many entries as that call created.
C7_BracketNullIffEmpty ==
  ret.op = "getTournamentBracket" =>
    /\ ret.value.isNull <=> StoredMatches = {}
    /\ generated > 0 =>
         /\ ~ret.value.isNull
         /\ Len(ret.value.matches) = generated
         /\ Range(ret.value.matches) = StoredMatches

\* C7 happens: the bracket of five single_elimination players was read back
\* with its 3 + 2 + 1 matches
C7_Witness ==
  /\ ret.op = "getTournamentBracket"
  /\ generated = 6
  /\ Len(ret.value.matches) = 6

\* C8: for a non-empty stored match set, the currentRound that
\* getTournamentBracket returns is the lowest round holding a match that is
\* pending or in_progress, and is rounds (the highest stored round) when
\* every match is completed.
C8_CurrentRound ==
  (ret.op = "getTournamentBracket" /\ StoredMatches # {}) =>
    LET open == {m.round : m \in {x \in StoredMatches :
                                    x.status \in {"pending", "in_progress"}}}
    IN /\ ret.value.rounds = HighestRound
       /\ IF open = {}
          THEN ret.value.currentRound = ret.value.rounds
          ELSE /\ ret.value.currentRound \in open
               /\ \A r \in open : ret.value.currentRound <= r

\* C8 happens: round 1 is completed, round 2 is in progress, round 3 pending
C8_Witness ==
  /\ ret.op = "getTournamentBracket"
  /\ ret.value.rounds = 3
  /\ ret.value.currentRound = 2
  /\ \E m \in StoredMatches : m.round = 1 /\ m.status = "completed"
  /\ \E m \in StoredMatches : m.round = 2 /\ m.status = "in_progress"

\* C9: every stored match of the league that has a first player and no second
\* player is completed and won by its first player; none is pending.
C9_ByeIsCompleted ==
  \A m \in StoredMatches :
    (m.player2Id = Null /\ m.player1Id # Null) =>
      /\ m.round = 1
      /\ m.status = "completed"
      /\ m.result.winnerId = m.player1Id

\* C9 happens: generateBracketMatches wrote a bye for the odd player out
C9_Witness ==
  /\ generated > 0
  /\ \E m \in StoredMatches :
       /\ m.player2Id = Null
       /\ m.player1Id # Null
       /\ m.result.winnerId = m.player1Id

\* C10: in the list getTournamentStandings returns, wins + losses of every
\* entry is at most the number of completed matches of the league in which
\* that participant is player1Id or player2Id.
C10_WinsPlusLossesBounded ==
  ret.op = "getTournamentStandings" =>
    \A i \in DOMAIN ret.value :
      ret.value[i].wins + ret.value[i].losses
        <= Cardinality({m \in StoredMatches :
                          /\ m.status = "completed"
                          /\ (m.player1Id = ret.value[i].userId
                              \/ m.player2Id = ret.value[i].userId)})

\* C10 happens: a listed participant has won and lost completed matches
C10_Witness ==
  /\ ret.op = "getTournamentStandings"
  /\ \E i \in DOMAIN ret.value :
       /\ ret.value[i].wins = 2
       /\ ret.value[i].losses = 1

\* the users with an active membership document of the league
ActiveUserIds ==
  {id[2] : id \in {k \in DOMAIN leagueMembers :
                     k[1] = LeagueId /\ leagueMembers[k].status = "active"}}

\* the completed stored matches of the league that user u plays in
CompletedMatchesOf(u) ==
  {m \in StoredMatches :
     m.status = "completed" /\ (m.player1Id = u \/ m.player2Id = u)}

\* C11: getTournamentStandings returns exactly one entry per active member
\* of the league and none for anybody else; a member who plays in no
\* completed match has wins = 0, losses = 0 and winRate = 0.
C11_OneEntryPerActiveMember ==
  ret.op = "getTournamentStandings" =>
    /\ {ret.value[i].userId : i \in DOMAIN ret.value} = ActiveUserIds
    /\ Len(ret.value) = Cardinality(ActiveUserIds)
    /\ \A i \in DOMAIN ret.value :
         CompletedMatchesOf(ret.value[i].userId) = {} =>
           /\ ret.value[i].wins = 0
           /\ ret.value[i].losses = 0
           /\ ret.value[i].winRate = Rate(0, 1)

\* C11 happens: two active members are listed, one of them without a
\* completed match, while a role-only document of the league is left out
C11_Witness ==
  /\ ret.op = "getTournamentStandings"
  /\ Len(ret.value) = 2
  /\ \E i \in DOMAIN ret.value :
       CompletedMatchesOf(ret.value[i].userId) = {} /\ ret.value[i].wins = 0
  /\ \E i \in DOMAIN ret.value : ret.value[i].wins = 1
  /\ \E id \in DOMAIN leagueMembers :
       id[1] = LeagueId /\ leagueMembers[id].status # "active"

\* C12: the list getTournamentStandings returns is ordered by wins
\* descending and, among equal wins, by winRate descending: of two adjacent
\* entries the first has more wins, or as many wins and no lower winRate.
C12_StandingsOrder ==
  ret.op = "getTournamentStandings" =>
    \A i \in 1..(Len(ret.value) - 1) :
      LET a == ret.value[i]
          b == ret.value[i + 1]
      IN \/ a.wins > b.wins
         \/ /\ a.wins = b.wins
            /\ a.winRate[1] * b.winRate[2] >= b.winRate[1] * a.winRate[2]

\* C12 happens: two members with one win each, the one with the higher
\* winRate listed first although its document comes later
C12_Witness ==
  /\ ret.op = "getTournamentStandings"
  /\ Len(ret.value) = 3
  /\ ret.value[1].wins = 1 /\ ret.value[1].losses = 0
  /\ ret.value[2].wins = 1 /\ ret.value[2].losses = 1
  /\ ret.value[1].userId > ret.value[2].userId

C14_KeyMatchesFields ==
  /\ \A id \in DOMAIN tournamentMatches :
       /\ tournamentMatches[id].id = id
       /\ id = <<tournamentMatches[id].leagueId, tournamentMatches[id].round,
                 tournamentMatches[id].matchNumber>>
  /\ \A a, b \in DOMAIN tournamentMatches :
       (/\ tournamentMatches[a].leagueId = tournamentMatches[b].leagueId
        /\ tournamentMatches[a].round = tournamentMatches[b].round
        /\ tournamentMatches[a].matchNumber = tournamentMatches[b].matchNumber)
       => a = b

\* C14 happens: two calls have both written their three records of a
\* single_elimination bracket, and three documents are stored
C14_Witness ==
  /\ \A p \in Procs : /\ calls[p].pc = "done"
                      /\ calls[p].error = ""
                      /\ calls[p].written = 3
  /\ Cardinality(StoredMatches) = 3
  /\ HighestRound = 2

\* C15: a generateBracketMatches call whose existing-matches query found no
\* match is not refused because of matches the other call writes afterwards:
\* it never fails with the matches-already-exist error, and when it returns
\* it has written every record of its list.
C15_CheckThenWriteNotAtomic ==
  \A p \in Procs :
    calls[p].sawNoMatch =>
      /\ calls[p].error # ErrExist
      /\ (calls[p].pc = "done" /\ calls[p].error = "") =>
           /\ calls[p].written = Len(calls[p].toCreate)
           /\ calls[p].written >= 1
           /\ \A i \in DOMAIN calls[p].toCreate :
                <<LeagueId, calls[p].toCreate[i].round,
                  calls[p].toCreate[i].matchNumber>> \in DOMAIN tournamentMatches

\* C15 happens: both calls saw no match, both wrote their full list and
\* returned, neither failed
C15_Witness ==
  \A p \in Procs :
    /\ calls[p].sawNoMatch
    /\ calls[p].pc = "done"
    /\ calls[p].error = ""
    /\ calls[p].written = Len(calls[p].toCreate)
    /\ calls[p].written >= 2

C17_CompletedHasWinner ==
  \A id \in DOMAIN tournamentMatches :
    tournamentMatches[id].status = "completed" =>
      /\ tournamentMatches[id].result.winnerId # Null
      /\ tournamentMatches[id].result.winnerId
           \in {tournamentMatches[id].player1Id, tournamentMatches[id].player2Id}

\* C17 happens: the completed matches of addDummyTournamentData are stored
C17_Witness ==
  /\ Cardinality({m \in StoredMatches : m.status = "completed"}) = 7
  /\ \E m \in StoredMatches : m.result.winnerId = m.player2Id

\* C18 as stated: after deleteLeague has returned, the league document is
\* gone and no member document and no match document of the league is left.
C18_AsStated ==
  (ret.op = "deleteLeague" /\ ret.error = "") =>
    /\ LeagueId \notin DOMAIN leagues
    /\ \A id \in DOMAIN leagueMembers : leagueMembers[id].leagueId # LeagueId
    /\ \A id \in DOMAIN tournamentMatches :
         tournamentMatches[id].leagueId # LeagueId

\* the user ids in the player slots of the stored round-1 matches, one pair
\* <<match id, slot>> per filled slot
Round1Slots ==
  {<<id, 1>> : id \in {k \in MatchesOfRound(1) :
                         tournamentMatches[k].player1Id # Null}}
  \cup
  {<<id, 2>> : id \in {k \in MatchesOfRound(1) :
                         tournamentMatches[k].player2Id # Null}}

SlotUser(slot) ==
  IF slot[2] = 1 THEN tournamentMatches[slot[1]].player1Id
  ELSE tournamentMatches[slot[1]].player2Id

\* C20: after a successful generateBracketMatches the round-1 player slots
\* partition the pool: every active member fills exactly one slot and every
\* filled slot holds an active member.
C20_Round1Partition ==
  generated > 0 =>
    /\ \A u \in ActiveUserIds :
         Cardinality({slot \in Round1Slots : SlotUser(slot) = u}) = 1
    /\ \A slot \in Round1Slots : SlotUser(slot) \in ActiveUserIds
    /\ Cardinality(Round1Slots) = NumActive

\* C20 happens: four members fill the four slots of two matches
C20_Witness ==
  /\ generated > 0
  /\ NumActive = 4
  /\ Cardinality(MatchesOfRound(1)) = 2
  /\ Cardinality(Round1Slots) = 4

RECURSIVE Factorial(_)
Factorial(n) == IF n <= 1 THEN 1 ELSE n * Factorial(n - 1)

\* C19 as stated: the seeding is a uniformly random order, each of the n!
\* orders of the pool having probability 1/n!.  A run of the sort is fixed by
\* the MaxComparisons answers of the comparator (a run that stops early
\* leaves the rest unused), and each of the 2^MaxComparisons answer strings is
\* equally likely; so the probability of an order is m / 2^MaxComparisons
\* with m the number of answer strings that end in it, and for it to be 1/n!
\* m * n! has to be 2^MaxComparisons.
C19_AsStated ==
  calls.pc = "sorted" =>
    \E m \in 1..(2 ^ MaxComparisons) :
      m * Factorial(Len(calls.shuffledMembers)) = 2 ^ MaxComparisons

\* the number of matches of round r in a list of matches to create
RoundCount(toCreate, r) ==
  Cardinality({i \in DOMAIN toCreate : toCreate[i].round = r})

\* the placeholder rounds the while loop creates after a first round of c
\* matches: every match has no player and is pending, each round has
\* ceil(half) the matches of the round before, and the loop stops at the first
\* round with exactly one match
PlaceholderChain(c) ==
  LET toCreate == PlaceholderMatches(LeagueId, c, 2)
      last == Max({toCreate[i].round : i \in DOMAIN toCreate} \cup {1})
      count(r) == IF r = 1 THEN c ELSE RoundCount(toCreate, r)
  IN /\ \A i \in DOMAIN toCreate :
          /\ toCreate[i].round >= 2
          /\ toCreate[i].player1Id = Null
          /\ toCreate[i].player2Id = Null
          /\ toCreate[i].status = "pending"
     /\ \A r \in 1..(last - 1) :
          /\ count(r) > 1
          /\ count(r + 1) = (count(r) + 1) \div 2
     /\ count(last) = 1

\* C21: after a successful generateBracketMatches on a single_elimination
\* league, every stored match of a round r >= 2 has player1Id = null,
\* player2Id = null and status pending; round r+1 holds ceil(c/2) matches
\* where c is the number of matches (byes included) of round r; and the
\* rounds end at the first one that holds exactly one match.  The placeholder
\* loop does so from every first round of 1..MaxAdvancing matches.
C21_PlaceholderRounds ==
  /\ (generated > 0 /\ LeagueFormat = "single_elimination") =>
       /\ \A m \in StoredMatches :
            m.round >= 2 => /\ m.player1Id = Null
                            /\ m.player2Id = Null
                            /\ m.status = "pending"
       /\ \A r \in 1..(HighestRound - 1) :
            /\ Cardinality(MatchesOfRound(r)) > 1
            /\ Cardinality(MatchesOfRound(r + 1))
                 = (Cardinality(MatchesOfRound(r)) + 1) \div 2
       /\ Cardinality(MatchesOfRound(HighestRound)) = 1
  /\ \A c \in 1..MaxAdvancing : PlaceholderChain(c)

\* C21 happens: five members, three matches in round 1 (an odd count), two
\* placeholders in round 2 and the final in round 3
C21_Witness ==
  /\ generated > 0
  /\ LeagueFormat = "single_elimination"
  /\ Cardinality(MatchesOfRound(1)) = 3
  /\ Cardinality(MatchesOfRound(2)) = 2
  /\ Cardinality(MatchesOfRound(3)) = 1
  /\ \A id \in MatchesOfRound(2) \cup MatchesOfRound(3) :
       /\ tournamentMatches[id].player1Id = Null
       /\ tournamentMatches[id].status = "pending"

\* the stored match documents of the league whose round field is r
StoredOfRound(r) == {m \in StoredMatches : m.round = r}

\* C22: in the bracket a successful generateBracketMatches has written, the
\* matchNumbers of every round are exactly 1..k, k being the number of
\* matches of the round, without gap or duplicate; in round 1 the two-player
\* matches have the numbers 1..floor(n/2) and the bye matches the numbers
\* from floor(n/2)+1 on.
C22_MatchNumbers ==
  generated > 0 =>
    LET n == NumActive
        paired == {m \in StoredOfRound(1) : m.player2Id # Null}
        bye == {m \in StoredOfRound(1) : m.player2Id = Null}
    IN /\ \A r \in 1..HighestRound :
            /\ {m.matchNumber : m \in StoredOfRound(r)}
                 = 1..Cardinality(StoredOfRound(r))
            /\ StoredOfRound(r) # {}
       /\ Cardinality(StoredMatches) = generated
       /\ {m.matchNumber : m \in paired} = 1..(n \div 2)
       /\ Cardinality(paired) = n \div 2
       /\ {m.matchNumber : m \in bye} = ((n \div 2) + 1)..((n \div 2) + (n % 2))
       /\ Cardinality(bye) = n % 2

\* C22 happens: five members, round 1 numbered 1, 2 for the pairs and 3 for
\* the bye, round 2 numbered 1, 2
C22_Witness ==
  /\ generated > 0
  /\ NumActive = 5
  /\ {m.matchNumber : m \in {x \in StoredOfRound(1) : x.player2Id # Null}} = {1, 2}
  /\ {m.matchNumber : m \in {x \in StoredOfRound(1) : x.player2Id = Null}} = {3}
  /\ {m.matchNumber : m \in StoredOfRound(2)} = {1, 2}

\* C23: for a league with stored matches, getTournamentBracket returns every
\* stored match of the league once and no other match, in ascending order of
\* round and, within a round, of matchNumber, and its rounds is the highest
\* round number among them.
C23_BracketSortedAndComplete ==
  (ret.op = "getTournamentBracket" /\ StoredMatches # {}) =>
    /\ ~ret.value.isNull
    /\ Range(ret.value.matches) = StoredMatches
    /\ Len(ret.value.matches) = Cardinality(StoredMatches)
    /\ \A i \in 1..(Len(ret.value.matches) - 1) :
         LET a == ret.value.matches[i]
             b == ret.value.matches[i + 1]
         IN \/ a.round < b.round
            \/ (a.round = b.round /\ a.matchNumber < b.matchNumber)
    /\ ret.value.rounds = HighestRound
    /\ \A m \in StoredMatches : m.round <= ret.value.rounds
    /\ \E m \in StoredMatches : m.round = ret.value.rounds

\* C23 happens: the query returned m10 before m2, the bracket lists 1, 2, 10
\* of round 1 and then round 2, another league's match left out
C23_Witness ==
  /\ ret.op = "getTournamentBracket"
  /\ Len(ret.value.matches) = 4
  /\ ret.value.matches[2].round = 1 /\ ret.value.matches[2].matchNumber = 2
  /\ ret.value.matches[3].round = 1
  /\ ret.value.matches[3].matchNumber = TwoDigitMatchNumber
  /\ ret.value.matches[4].round = 2
  /\ MatchDocsInOrder(StoredMatches)[2].matchNumber = TwoDigitMatchNumber
  /\ ret.value.rounds = 2
  /\ OtherLeagueMatch.id \in DOMAIN tournamentMatches

\* the documents a call has written so far are stored
WrittenAreStored(p) ==
  \A i \in 1..calls[p].written :
    <<LeagueId, calls[p].toCreate[i].round, calls[p].toCreate[i].matchNumber>>
      \in DOMAIN tournamentMatches

\* a bracket left partial: matches are stored, no call has written its whole
\* list, and no call that found the league without matches is still running
LeftPartial ==
  /\ StoredMatches # {}
  /\ generated = 0
  /\ \A p \in Procs : calls[p].pc \notin {"members", "write"}

\* C24: when a setDoc of generateBracketMatches fails after k >= 1 records
\* have been written, the call fails and the k records stay stored; from
\* then on every generateBracketMatches call that ends on the league ends
\* with the matches-already-exist error having written nothing, and the
\* stored matches never change.
C24_PartialBracketStays ==
  [][/\ \A p \in Procs :
          (calls[p].pc = "write" /\ calls'[p].error = ErrSetDoc) =>
            /\ calls'[p].pc = "done"
            /\ ret' = Ret("generateBracketMatches", ErrSetDoc)
            /\ tournamentMatches' = tournamentMatches
            /\ WrittenAreStored(p)
            /\ calls[p].written >= 1 => StoredMatches # {}
     /\ LeftPartial =>
          /\ LeftPartial'
          /\ tournamentMatches' = tournamentMatches
          /\ \A p \in Procs :
               (calls[p].pc # "done" /\ calls'[p].pc = "done") =>
                 /\ calls'[p].error = ErrExist
                 /\ calls'[p].written = 0]_vars

\* C24 happens: a call failed after one of its three records, the league
\* holds that one record, and the other caller's call was refused
C24_Witness ==
  \E p, q \in Procs :
    /\ calls[p].pc = "done" /\ calls[p].error = ErrSetDoc
    /\ calls[p].written = 1 /\ Len(calls[p].toCreate) = 3
    /\ calls[q].pc = "done" /\ calls[q].error = ErrExist
    /\ calls[q].written = 0 /\ ~calls[q].sawNoMatch
    /\ Cardinality(StoredMatches) = 1
    /\ LeftPartial

\* the records the owner's call has written so far, as it stored them
WrittenSoFar ==
  {[calls[OwnerId].toCreate[i] EXCEPT
      !.id = <<LeagueId, calls[OwnerId].toCreate[i].round,
               calls[OwnerId].toCreate[i].matchNumber>>] :
     i \in 1..calls[OwnerId].written}

\* C25: a getTournamentBracket or getTournamentStandings call made while a
\* generateBracketMatches call is between two of its writes returns without
\* error: the bracket is null when no record has been written yet, and
\* otherwise is made of exactly the records written so far, with rounds their
\* highest round number; the standings have one entry for every active
\* member.  Neither reader changes what is stored.
C25_ReadersOfPartialBracket ==
  [][calls' = calls =>
       /\ ret'.op \in {"getTournamentBracket", "getTournamentStandings"}
       /\ ret'.error = ""
       /\ tournamentMatches' = tournamentMatches
       /\ leagueMembers' = leagueMembers
       /\ ret'.op = "getTournamentBracket" =>
            /\ ret'.value.isNull <=> StoredMatches = {}
            /\ Range(ret'.value.matches) = StoredMatches
            /\ Len(ret'.value.matches) = Cardinality(StoredMatches)
            /\ ~ret'.value.isNull => ret'.value.rounds = HighestRound
            /\ calls[OwnerId].pc = "write" =>
                 /\ Range(ret'.value.matches) = WrittenSoFar
                 /\ Len(ret'.value.matches) = calls[OwnerId].written
                 /\ ret'.value.isNull <=> calls[OwnerId].written = 0
       /\ ret'.op = "getTournamentStandings" =>
            /\ {ret'.value[i].userId : i \in DOMAIN ret'.value} = ActiveUserIds
            /\ Len(ret'.value) = Cardinality(ActiveUserIds)]_vars

\* C25 happens: the call has written two of the three records of its list,
\* the pair and the bye of round 1, and the bracket just read has those two
\* and one round
C25_Witness ==
  /\ calls[OwnerId].pc = "write"
  /\ calls[OwnerId].written = 2
  /\ Len(calls[OwnerId].toCreate) = 3
  /\ ret.op = "getTournamentBracket"
  /\ ~ret.value.isNull
  /\ Len(ret.value.matches) = 2
  /\ Range(ret.value.matches) = WrittenSoFar
  /\ ret.value.rounds = 1

\* C26 as stated: when two generateBracketMatches calls on the league have
\* both returned, whatever their interleaving, the stored round-1 matches
\* partition the pool: every active member fills exactly one round-1 player
\* slot and no member is in two round-1 matches.
C26_AsStated ==
  (\A p \in Procs : calls[p].pc = "done" /\ calls[p].error = "") =>
    /\ \A u \in ActiveUserIds :
         Cardinality({slot \in Round1Slots : SlotUser(slot) = u}) = 1
    /\ Cardinality(Round1Slots) = NumActive

ByeHolders == {m.player1Id : m \in {x \in StoredOfRound(1) : x.player2Id = Null}}

\* C28: after a successful generateBracketMatches over n active members and
\* before any result is recorded, getTournamentStandings lists the n members
\* with wins = 0, losses = 0, winRate = 0 when n is even; when n is odd it
\* lists the member holding the bye first with wins = 1, losses = 0,
\* winRate = 100 and every other member with 0, 0 and 0.
C28_StandingsAfterGenerate ==
  (ret.op = "getTournamentStandings" /\ generated > 0) =>
    LET n == NumActive
        standings == ret.value
        Zero(i) == /\ standings[i].wins = 0
                   /\ standings[i].losses = 0
                   /\ standings[i].winRate = <<0, 1>>
    IN /\ Len(standings) = n
       /\ {standings[i].userId : i \in 1..n} = ActiveUserIds
       /\ IF n % 2 = 0
          THEN /\ ByeHolders = {}
               /\ \A i \in 1..n : Zero(i)
          ELSE /\ ByeHolders = {standings[1].userId}
               /\ standings[1].wins = 1
               /\ standings[1].losses = 0
               /\ standings[1].winRate = <<100, 1>>
               /\ \A i \in 2..n : Zero(i)

\* C28 happens: of five members the one with the bye, not the first of the
\* member query, leads the standings with one win
C28_Witness ==
  /\ ret.op = "getTournamentStandings"
  /\ generated > 0
  /\ NumActive = 5
  /\ ret.value[1].wins = 1
  /\ ret.value[1].winRate = <<100, 1>>
  /\ ret.value[1].userId = 4
  /\ ByeHolders = {4}
  /\ ret.value[2].wins = 0 /\ ret.value[2].userId = 1

\* C29 as stated: on a league with a limit of M > 0 participants that starts
\* with at most M active members, whatever the interleaving of the
\* joinTournament calls of distinct signed-in users, the league never has
\* more than M active members; a call that finds M or more active members
\* ends there with the tournament-is-full error, before any write.
C29_AsStated ==
  leagues[LeagueId].maxParticipants # Null =>
    /\ NumActive <= leagues[LeagueId].maxParticipants
    /\ \A u \in JoinUsers :
         (calls[u].seen # Null /\ calls[u].seen >= calls[u].maxParticipants) =>
           /\ calls[u].error = ErrFull
           /\ calls[u].pc = "done"

\* C30 as stated: whenever every joinLeagueByCode call made so far has
\* returned, whatever the interleaving of the calls (two calls of the same
\* user at the same time included), the memberCount of every league is the
\* number of documents of its members subcollection; and a join by a user
\* who is a member already changes nothing.
C30_AsStated ==
  [][/\ (\A c \in CloudCalls : calls'[c].pc \in {"start", "done"}) =>
          \A l \in DOMAIN leagues' :
            leagues'[l].memberCount = Cardinality(DOMAIN leagues'[l].members)
     /\ \A c \in CloudCalls :
          (/\ calls[c].pc = "already"
           /\ calls'[c].pc # "already"
           /\ calls[c].uid \in DOMAIN leagues[calls[c].leagueRef].members) =>
            /\ leagues' = leagues
            /\ calls'[c].pc = "done"]_vars

====
